---- MODULE Spec2Model ----
(***************************************************************************)
(* Smart Parking Mission Control (src/main.py): the spot matcher           *)
(* (find_parking_spot), the booking handler (book_parking_spot), the       *)
(* machine connection registry (ConnectionManager) and the free-one-spot   *)
(* handler, running against the external NGSI-LD entity store.             *)
(*                                                                         *)
(* Python values are encoded as follows.  None is the empty tuple <<>> and *)
(* any other value v is the 1-tuple <<v>>.  A JSON attribute of an entity  *)
(* is a record [form, falsy, value]: form "missing" when the key is absent *)
(* (dict.get gives None), "wrapped" for the NGSI-LD shape {"type":...,     *)
(* "value": v}, "bare" for an unwrapped v; falsy is Python's truth value   *)
(* of the raw JSON value (an empty list or string is falsy, a dict with    *)
(* keys is not).                                                           *)
(***************************************************************************)
EXTENDS Integers, Sequences, FiniteSets, TLC

\* ---------------------------------------------------------------- bounds
\* Number of spot entities in the store (ids 1..NumSpots, in the order the
\* store lists them).
NumSpots == 2
\* Number of booking requests (POST /book-spot) in a run.
NumBookings == 2
\* Number of machines that open /ws/machine in a run.
NumMachines == 2
\* Number of POST /clear-spot/{id} calls in a run.
MaxClears == 1

\* ------------------------------------------------------ values and types
None == <<>>
Some(v) == <<v>>

FREE == "free"
OCCUPIED == "occupied"
EV == "forElectricCharging"
DISABLED == "forDisabled"
WOMEN == "forWomen"
Tags == {EV, DISABLED, WOMEN}

Missing(dummy) == [form |-> "missing", falsy |-> TRUE, value |-> dummy]
Wrapped(v) == [form |-> "wrapped", falsy |-> FALSE, value |-> v]
Bare(v, isEmpty) == [form |-> "bare", falsy |-> isEmpty, value |-> v]

\* class BookingRequest: three booleans.
BookingRequest ==
    [requires_disabled : BOOLEAN, requires_female : BOOLEAN, requires_ev : BOOLEAN]

SpotIds == 1 .. NumSpots
\* An id no entity of the store carries.
UnknownId == NumSpots + 1
Bookings == 1 .. NumBookings
Machines == 1 .. NumMachines

\* The position the store keeps for spot id.
CoordsOf(id) == <<id, id>>

\* The shapes the "status" attribute of a listed entity takes.
StatusAttrs == {Missing(""), Wrapped(FREE), Wrapped(OCCUPIED)}
\* The shapes of "category": absent, an unwrapped empty list, or a wrapped
\* list of tags.
CategoryAttrs == {Missing({}), Bare({}, TRUE)} \cup {Wrapped(c) : c \in SUBSET Tags}

\* The entity of spot id with the given attributes; hasLocation tells
\* whether it carries a "location".
Entity(id, shape) ==
    [id |-> id, status |-> shape.status, category |-> shape.category,
     location |-> IF shape.hasLocation THEN Wrapped(CoordsOf(id)) ELSE Missing(<<>>)]

\* Every shape of entity the matcher is handed.
SpotShapes ==
    [status : StatusAttrs, category : CategoryAttrs, hasLocation : {TRUE}]

\* Shapes as the booking flow meets them: a general spot, with or without
\* a location.
BookableShapes ==
    [status : {Wrapped(FREE), Wrapped(OCCUPIED)}, category : {Wrapped({})},
     hasLocation : BOOLEAN]

\* --------------------------------------------------------- pure functions
\* get_clean_value: None for a falsy attribute, the 'value' of a dict that
\* has one, the attribute itself otherwise.
get_clean_value(attribute) ==
    IF attribute.form = "missing" \/ attribute.falsy THEN None
    ELSE IF attribute.form = "wrapped" THEN Some(attribute.value)
    ELSE Some(attribute.value)

\* Lines 99-109: one point per special tag the spot carries.
spot_weight(categories) ==
    (IF EV \in categories THEN 1 ELSE 0)
    + (IF DISABLED \in categories THEN 1 ELSE 0)
    + (IF WOMEN \in categories THEN 1 ELSE 0)

\* Variant of is_match without lines 124-126.
is_match_NoWithhold(categories, preferences) ==
    /\ (preferences.requires_ev => EV \in categories)
    /\ (preferences.requires_disabled => DISABLED \in categories)
    /\ (preferences.requires_female => WOMEN \in categories)

\* Variant of is_match that is content with one of the requested tags.
is_match_AnyOf(categories, preferences) ==
    /\ (preferences.requires_ev \/ preferences.requires_disabled
            \/ preferences.requires_female)
         => \/ (preferences.requires_ev /\ EV \in categories)
            \/ (preferences.requires_disabled /\ DISABLED \in categories)
            \/ (preferences.requires_female /\ WOMEN \in categories)
    /\ ((~preferences.requires_disabled /\ ~preferences.requires_female)
            => (DISABLED \notin categories /\ WOMEN \notin categories))

\* Lines 100, 111-126: the eligibility rule.
is_match(categories, preferences) ==
    /\ (preferences.requires_ev => EV \in categories)
    /\ (preferences.requires_disabled => DISABLED \in categories)
    /\ (preferences.requires_female => WOMEN \in categories)
    /\ ((~preferences.requires_disabled /\ ~preferences.requires_female)
            => (DISABLED \notin categories /\ WOMEN \notin categories))

\* Variant of IsFree that skips only the spots read as occupied.
IsFreeLoose(status) == status # Some(OCCUPIED)

\* Line 96 (negated): the spot goes on to the category checks.
IsFree(status) == status = Some(FREE)

\* Lines 87-129: the scan.  A spot that is not free is skipped; a free spot
\* whose categories are None raises TypeError at line 102 ("in" applied to
\* None), which ends the scan.
RECURSIVE suitable_spots(_, _, _, _)
suitable_spots(all_spots, preferences, i, acc) ==
    IF i > Len(all_spots) THEN [raised |-> FALSE, list |-> acc]
    ELSE LET spot == all_spots[i]
             status == get_clean_value(spot.status)
             categories == get_clean_value(spot.category)
         IN  IF ~IsFree(status)
             THEN suitable_spots(all_spots, preferences, i + 1, acc)
             ELSE IF categories = None
             THEN [raised |-> TRUE, list |-> acc]
             ELSE IF is_match(categories[1], preferences)
             THEN suitable_spots(all_spots, preferences, i + 1,
                      Append(acc, <<spot, spot_weight(categories[1])>>))
             ELSE suitable_spots(all_spots, preferences, i + 1, acc)

\* Variant of Improves with <= at line 140.
ImprovesOrTies(weight, best) == best = None \/ weight <= best[1][2]

\* Line 140: a candidate replaces the best so far when its weight is
\* strictly smaller (min_weight starts at infinity: the first one always
\* does).
Improves(weight, best) == best = None \/ weight < best[1][2]

\* Lines 136-142: best_spot, as the pair <<spot, weight>> wrapped in Some.
RECURSIVE best_spot(_, _, _)
best_spot(suitable, i, best) ==
    IF i > Len(suitable) THEN best
    ELSE IF Improves(suitable[i][2], best)
         THEN best_spot(suitable, i + 1, Some(suitable[i]))
         ELSE best_spot(suitable, i + 1, best)

\* Lines 145-146: the coordinates reported, [0,0] without a location.
Coordinates(spot) ==
    LET location_data == get_clean_value(spot.location)
    IN  IF location_data # None THEN location_data[1] ELSE <<0, 0>>

\* Lines 87-154: what find_parking_spot answers on a fetched list.
\* "raised" is the uncaught TypeError (HTTP 500 from the framework).
find_parking_spot(all_spots, preferences) ==
    LET scan == suitable_spots(all_spots, preferences, 1, <<>>)
    IN  IF scan.raised
        THEN [status |-> "raised", assigned_spot_id |-> UnknownId,
              coordinates |-> <<0, 0>>, message |-> "TypeError"]
        ELSE IF scan.list = <<>>
        THEN [status |-> "failure", assigned_spot_id |-> UnknownId,
              coordinates |-> <<0, 0>>,
              message |-> "No suitable spots available."]
        ELSE LET best == best_spot(scan.list, 1, None)[1][1]
             IN  [status |-> "success", assigned_spot_id |-> best.id,
                  coordinates |-> Coordinates(best),
                  message |-> "Spot reserved successfully."]

\* Lines 83-84: the answer when the list cannot be fetched.
FetchFailed ==
    [status |-> "http500", assigned_spot_id |-> UnknownId,
     coordinates |-> <<0, 0>>, message |-> "Could not connect to FIWARE"]

NoCall ==
    [status |-> "none", assigned_spot_id |-> UnknownId,
     coordinates |-> <<0, 0>>, message |-> ""]

\* ------------------------------------------------------------------ state
VARIABLES
    store,                \* the entity store: the spot entities, in list order
    find,                 \* the last /find-spot call: its preferences and answer
    booking,              \* per /book-spot request: where it is and what it holds
    active_connections,   \* manager.active_connections
    alive,                \* per machine: its channel is open
    received,             \* per machine: the events delivered to it, in order
    locked,               \* spots a booking reported locked and nobody freed since
    clear,                \* the /clear-spot calls made: count and last answer
    garages,              \* the entity store: the ids of the garage entities
    removal,              \* the last /delete-garage call and its answer
    clearall              \* the /clear-all-spots call: where it is, its answer

vars == <<store, find, booking, active_connections, alive, received, locked, clear,
          garages, removal, clearall>>

IdleBooking ==
    [pc |-> "idle", spot_id |-> UnknownId, coords |-> <<0, 0>>,
     result |-> "none", wrote |-> FALSE, i |-> 0, target |-> 0,
     prior |-> FALSE, raced |-> FALSE, registered |-> {}, met |-> "none"]

\* The index of entity id in the store, 0 when the store has none.
IndexOf(id) ==
    IF \E k \in 1 .. Len(store) : store[k].id = id
    THEN CHOOSE k \in 1 .. Len(store) : store[k].id = id
    ELSE 0

\* PATCH /entities/{id}/attrs with {"status": {"type": "Property",
\* "value": v}, ...}: the broker overwrites the attribute of the entity it
\* finds.  The request carries no condition on the current value.
PatchStatus(id, v) ==
    [store EXCEPT ![IndexOf(id)].status = Wrapped(v)]

\* The event a machine gets (line 44-49; the timestamp is left out).
Payload(r) ==
    [event |-> "NEW_BOOKING", spot_id |-> booking[r].spot_id,
     coordinates |-> booking[r].coords, request |-> r]

\* The machines in the registry.
Registered == {active_connections[k] : k \in 1 .. Len(active_connections)}

\* The number of machines that have connected so far.
Connected == Len(active_connections)

\* The number of /book-spot requests that have arrived so far.
Arrived == Cardinality({q \in Bookings : booking[q].pc # "idle"})

\* The requests between their read and their return on spot id.
InFlight(id) ==
    {q \in Bookings : booking[q].pc \in {"patch", "send"} /\ booking[q].spot_id = id}

\* The garage every spot of the store refers to (refParkingGarage).
GarageId == NumSpots + 2

NoRemoval ==
    [status |-> "none", garage_id |-> GarageId, reachable |-> FALSE,
     garage_held |-> FALSE, matched |-> <<>>, attempted |-> <<>>,
     garage_attempted |-> FALSE,
     deletedSpots |-> <<>>, spotsDeletedCount |-> 0]

NoClearAll ==
    [pc |-> "idle", all_spots |-> <<>>, i |-> 0, patched |-> {},
     result |-> "none", count |-> 0, before |-> {}]

\* State after construction: no connection, no request made.
ProcessInit ==
    /\ find = [preferences |-> [requires_disabled |-> FALSE,
                                requires_female |-> FALSE,
                                requires_ev |-> FALSE],
               result |-> NoCall]
    /\ booking = [r \in Bookings |-> IdleBooking]
    /\ active_connections = <<>>
    /\ alive = [m \in Machines |-> FALSE]
    /\ received = [m \in Machines |-> <<>>]
    /\ locked = {}
    /\ clear = [count |-> 0, result |-> "none", met |-> "none"]
    /\ garages = {GarageId}
    /\ removal = NoRemoval
    /\ clearall = NoClearAll

Init ==
    /\ \E shapes \in [SpotIds -> BookableShapes] :
           store = [id \in SpotIds |-> Entity(id, shapes[id])]
    /\ ProcessInit

\* ------------------------------------------------- ConnectionManager
\* machine_socket, line 61 -> connect, lines 34-37: accept, then append.
\* Machines are numbered in the order they connect.
Connect(m) ==
    /\ m = Connected + 1
    /\ alive' = [alive EXCEPT ![m] = TRUE]
    /\ active_connections' = Append(active_connections, m)
    /\ UNCHANGED <<store, find, booking, received, locked, clear, garages, removal, clearall>>

\* machine_socket, lines 62-68: the machine m (connected: the registry is
\* never shortened, see below) goes away and receive_text
\* raises WebSocketDisconnect.  The name WebSocketDisconnect is not imported
\* (line 1), so evaluating the except clause raises NameError and
\* manager.disconnect (lines 39-40) is not reached: the registry keeps the
\* connection.
MachineGone(m) ==
    /\ alive[m]
    /\ alive' = [alive EXCEPT ![m] = FALSE]
    /\ UNCHANGED <<store, find, booking, active_connections, received, locked, clear, garages, removal, clearall>>

\* --------------------------------------------------- book_parking_spot
\* Lines 164-176: the re-read of the spot and the extraction of its
\* coordinates.  reachable = FALSE is the store not answering (the
\* connection fails).  Both that and the 404 of a spot the store does not
\* hold end in the "except Exception" of line 173.  met records what the
\* store answered.  Requests are numbered in the order they arrive.
BookRead(r, id, reachable) ==
    /\ booking[r].pc = "idle"
    /\ r = Arrived + 1
    /\ LET k == IndexOf(id)
           start == [booking[r] EXCEPT !.spot_id = id,
                                        !.prior = (id \in locked),
                                        !.raced = (InFlight(id) # {})]
           met == [q \in Bookings |->
                      IF q \in InFlight(id)
                      THEN [booking[q] EXCEPT !.raced = TRUE] ELSE booking[q]]
       IN  booking' =
             [met EXCEPT ![r] =
                IF ~reachable \/ k = 0
                THEN [start EXCEPT !.pc = "done", !.result = "http500_fiware",
                                   !.met = IF reachable THEN "read_404"
                                           ELSE "read_no_answer"]
                ELSE IF store[k].location.form # "wrapped"
                THEN [start EXCEPT !.pc = "done", !.result = "raised",
                                   !.met = "read_200"]
                ELSE [start EXCEPT !.pc = "patch", !.met = "read_200",
                                   !.coords = store[k].location.value]]
    /\ UNCHANGED <<store, find, active_connections, alive, received, locked, clear, garages, removal, clearall>>

\* What follows a confirmed write or a delivered send (lines 50-51 and
\* 213-216): the iterator takes the connection at index i + 1 if the list
\* has one, and the handler returns success when it has none.
NextSend(b, i) ==
    IF i < Len(active_connections)
    THEN [b EXCEPT !.pc = "send", !.i = i + 1, !.target = active_connections[i + 1]]
    ELSE [b EXCEPT !.pc = "done", !.result = "success", !.i = i, !.target = 0]

\* What requests.patch meets: no answer, 404 for an id the store does not
\* hold, 204 otherwise.
PatchResponse(id, reachable) ==
    IF ~reachable THEN "no_answer" ELSE IF IndexOf(id) = 0 THEN "404" ELSE "204"

\* Variant of RaisedFor without raise_for_status (line 204): a 404 passes.
RaisedOnlyForNoAnswer(response) ==
    IF response = "no_answer" THEN "http500_conn" ELSE "none"

\* Lines 204-209: raise_for_status and the two except clauses.  The answer
\* the handler raises for a response, "none" when it goes on.
RaisedFor(response) ==
    IF response = "404" THEN "http400"
    ELSE IF response = "no_answer" THEN "http500_conn"
    ELSE "none"

\* Lines 178-211: the status=occupied write, then the start of the
\* broadcast.  wrote records that the store applied the write.
BookWrite(r, reachable) ==
    /\ booking[r].pc = "patch"
    /\ LET id == booking[r].spot_id
           response == PatchResponse(id, reachable)
           b == [booking[r] EXCEPT !.wrote = (response = "204"),
                                   !.met = IF response = "204" THEN "write_204"
                                           ELSE IF response = "404" THEN "write_404"
                                           ELSE "write_no_answer"]
       IN  /\ store' = IF response = "204" THEN PatchStatus(id, OCCUPIED) ELSE store
           /\ booking' = [booking EXCEPT ![r] =
                 IF RaisedFor(response) # "none"
                 THEN [b EXCEPT !.pc = "done", !.result = RaisedFor(response)]
                 ELSE NextSend([b EXCEPT !.registered = Registered], 0)]
           /\ locked' = IF booking'[r].result = "success"
                        THEN locked \cup {id} ELSE locked
    /\ UNCHANGED <<find, active_connections, alive, received, clear, garages, removal, clearall>>

\* Lines 167-170: the store accepts the connection of the GET and never
\* answers.  requests.get is called without timeout=, so it waits without
\* limit and the handler never gets past line 167.
BookReadStalls(r, id) ==
    /\ booking[r].pc = "idle"
    /\ r = Arrived + 1
    /\ booking' = [booking EXCEPT ![r] =
          [@ EXCEPT !.pc = "stalled", !.spot_id = id, !.met = "read_silence"]]
    /\ UNCHANGED <<store, find, active_connections, alive, received, locked, clear, garages, removal, clearall>>

\* Lines 196-203: the same for the PATCH, also called without timeout=.
BookWriteStalls(r) ==
    /\ booking[r].pc = "patch"
    /\ booking' = [booking EXCEPT ![r] =
          [@ EXCEPT !.pc = "stalled", !.met = "write_silence"]]
    /\ UNCHANGED <<store, find, active_connections, alive, received, locked, clear, garages, removal, clearall>>

\* send_coordinates, lines 50-51: the pending send_json completes.  On an
\* open channel the machine gets the payload and the loop goes on; on a
\* closed one send_json raises, and nothing catches it in send_coordinates
\* or in book_parking_spot.
BookSend(r) ==
    /\ booking[r].pc = "send"
    /\ LET b == booking[r]
           m == b.target
       IN  IF alive[m]
           THEN /\ received' = [received EXCEPT ![m] = Append(@, Payload(r))]
                /\ booking' = [booking EXCEPT ![r] = NextSend(b, b.i)]
                /\ locked' = IF booking'[r].result = "success"
                             THEN locked \cup {b.spot_id} ELSE locked
           ELSE /\ booking' = [booking EXCEPT ![r] =
                       [b EXCEPT !.pc = "done", !.result = "raised"]]
                /\ UNCHANGED <<received, locked>>
    /\ UNCHANGED <<store, find, active_connections, alive, clear, garages, removal, clearall>>

\* ------------------------------------------- clear_single_parking_spot
\* Lines 339-353: the answer of clear_single_parking_spot for a response
\* of the store.  The HTTPException(404) of line 341 does not leave the
\* try block as such: it is an Exception, line 347 catches it and line 348
\* raises the 500 answer in its place.
ClearAnswer(response) ==
    IF response = "204" THEN "success" ELSE "http500_conn"

\* Lines 309-353.  The HTTPException(404) of line 341 is raised inside the
\* try block and caught by "except Exception" (line 347), which turns it
\* into the 500 "Connection Error" answer.
ClearSingle(id, reachable) ==
    /\ clear.count < MaxClears
    /\ IF ~reachable \/ IndexOf(id) = 0
       THEN /\ clear' = [count |-> clear.count + 1,
                         result |-> ClearAnswer(PatchResponse(id, reachable)),
                         met |-> PatchResponse(id, reachable)]
            /\ UNCHANGED <<store, locked, booking>>
       ELSE /\ store' = PatchStatus(id, FREE)
            /\ clear' = [count |-> clear.count + 1,
                         result |-> ClearAnswer(PatchResponse(id, reachable)),
                         met |-> PatchResponse(id, reachable)]
            /\ locked' = locked \ {id}
            /\ booking' = [q \in Bookings |->
                             IF q \in InFlight(id)
                             THEN [booking[q] EXCEPT !.prior = FALSE]
                             ELSE booking[q]]
    /\ UNCHANGED <<find, active_connections, alive, received, garages, removal, clearall>>

\* ------------------------------------------------------ the entity store
\* DELETE /entities/{id} by any client of the broker: the store is shared
\* with other process instances and tools, and a spot may vanish between
\* two calls of a handler.
EntityRemoved(id) ==
    /\ IndexOf(id) # 0
    /\ store' = SelectSeq(store, LAMBDA e : e.id # id)
    /\ UNCHANGED <<find, booking, active_connections, alive, received, locked, clear, garages, removal, clearall>>

Next ==
    \/ \E id \in SpotIds : EntityRemoved(id)
    \/ \E m \in Machines : Connect(m)
    \/ \E m \in Machines : MachineGone(m)
    \/ \E r \in Bookings, id \in SpotIds \cup {UnknownId}, reachable \in BOOLEAN :
           BookRead(r, id, reachable)
    \/ \E r \in Bookings, reachable \in BOOLEAN : BookWrite(r, reachable)
    \/ \E r \in Bookings : BookSend(r)
    \/ \E r \in Bookings, id \in SpotIds : BookReadStalls(r, id)
    \/ \E r \in Bookings : BookWriteStalls(r)
    \/ \E id \in SpotIds \cup {UnknownId}, reachable \in BOOLEAN :
           ClearSingle(id, reachable)

Spec == Init /\ [][Next]_vars

\* ------------------------------------------------ the matcher on its own
\* The store holds any list of spot entities; requests only read it.
InitFind ==
    /\ \E shapes \in [SpotIds -> SpotShapes] :
           store = [id \in SpotIds |-> Entity(id, shapes[id])]
    /\ ProcessInit

\* Variant of FindSpot that marks the spot it answers with as occupied.
FindSpotReserves(preferences, reachable) ==
    LET result == IF reachable THEN find_parking_spot(store, preferences)
                  ELSE FetchFailed
    IN  /\ find' = [preferences |-> preferences, result |-> result]
        /\ store' = IF result.status = "success"
                     THEN PatchStatus(result.assigned_spot_id, OCCUPIED)
                     ELSE store
        /\ UNCHANGED <<booking, active_connections, alive, received, locked, clear, garages, removal, clearall>>

\* Lines 70-154: GET ?type=SmartIndoorParkingSpot, then the match on the
\* list returned.
FindSpot(preferences, reachable) ==
    /\ find' = [preferences |-> preferences,
                result |-> IF reachable
                           THEN find_parking_spot(store, preferences)
                           ELSE FetchFailed]
    /\ UNCHANGED <<store, booking, active_connections, alive, received, locked, clear, garages, removal, clearall>>

NextFind ==
    \E preferences \in BookingRequest, reachable \in BOOLEAN :
        FindSpot(preferences, reachable)

SpecFind == InitFind /\ [][NextFind]_vars

\* ------------------------------------------------------- delete_garage
\* A URL path is the sequence of its segments: a literal word, or the id
\* of an entity put there by an f-string.
Lit(name) == [lit |-> name, id |-> 0]

Id(i) == [lit |-> "", id |-> i]

\* Line 12: ORION_URL already ends in /entities.
ORION_URL == <<Lit("ngsi-ld"), Lit("v1"), Lit("entities")>>

\* The broker's route /ngsi-ld/v1/entities/{id}: one segment after the
\* collection.
IsEntityPath(path) ==
    /\ Len(path) = Len(ORION_URL) + 1
    /\ SubSeq(path, 1, Len(ORION_URL)) = ORION_URL

\* The last segment of path is the id of an entity the store holds.
HoldsEntity(path, spots, gs) ==
    LET seg == path[Len(path)]
    IN  /\ seg.lit = ""
        /\ seg.id \in gs \/ \E k \in 1 .. Len(spots) : spots[k].id = seg.id

\* GET path?type=SmartIndoorParkingSpot&q=refParkingGarage==garage_id.
\* The collection path answers 200 with the spots that refer to the
\* garage (every spot of the store refers to GarageId).  A longer path is
\* the retrieval of one entity, and one whose id the store does not hold
\* answers 404; the parameters play no part in it.
StoreQuery(path, garage_id, reachable) ==
    IF ~reachable THEN [code |-> "no_answer", body |-> <<>>]
    ELSE IF path = ORION_URL
    THEN [code |-> "200",
          body |-> IF garage_id = GarageId THEN store ELSE <<>>]
    ELSE [code |-> "404", body |-> <<>>]

\* DELETE path: 204 for the path of an entity the store holds, 404 for
\* any other.
StoreDelete(path, spots, gs) ==
    IF IsEntityPath(path) /\ HoldsEntity(path, spots, gs) THEN "204" ELSE "404"

\* Lines 375-380: the loop over the spots of the answer.  spots is the
\* store as the deletions so far leave it, attempted the ids a DELETE was
\* sent for.
RECURSIVE delete_spots(_, _, _, _, _)
delete_spots(body, k, deleted_spots, attempted, spots) ==
    IF k > Len(body)
    THEN [deleted_spots |-> deleted_spots, attempted |-> attempted,
          spots |-> spots]
    ELSE LET spot_id == body[k].id
             del_resp == StoreDelete(ORION_URL \o <<Lit("entities"), Id(spot_id)>>,
                                     spots, garages)
         IN  IF del_resp = "204"
             THEN delete_spots(body, k + 1, Append(deleted_spots, spot_id),
                               Append(attempted, spot_id),
                               SelectSeq(spots, LAMBDA e : e.id # spot_id))
             ELSE delete_spots(body, k + 1, deleted_spots,
                               Append(attempted, spot_id), spots)

\* Lines 356-398.  reachable = FALSE is the store not answering the call:
\* requests raises a RequestException, as raise_for_status does for a 4xx
\* answer of the query, and line 397 turns both into HTTP 500.  The
\* HTTPException of line 385 is no RequestException and leaves with the
\* status of the garage's DELETE.  matched and garage_held record what the
\* store held for the garage when the call came.
DeleteGarage(garage_id, reachable) ==
    LET query_url == ORION_URL \o <<Lit("entities")>>
        resp == StoreQuery(query_url, garage_id, reachable)
        call == [NoRemoval EXCEPT !.garage_id = garage_id,
                                  !.reachable = reachable,
                                  !.garage_held = (garage_id \in garages),
                                  !.matched = IF garage_id = GarageId
                                              THEN [k \in 1 .. Len(store) |-> store[k].id]
                                              ELSE <<>>]
    IN  IF resp.code # "200"
        THEN /\ removal' = [call EXCEPT !.status = "http500"]
             /\ UNCHANGED <<store, garages>>
             /\ UNCHANGED <<find, booking, active_connections, alive, received,
                            locked, clear, clearall>>
        ELSE LET loop == delete_spots(resp.body, 1, <<>>, <<>>, store)
                 garage_resp ==
                     StoreDelete(ORION_URL \o <<Lit("entities"), Id(garage_id)>>,
                                 loop.spots, garages)
             IN  /\ store' = loop.spots
                 /\ garages' = IF garage_resp = "204"
                                THEN garages \ {garage_id} ELSE garages
                 /\ removal' =
                      [call EXCEPT
                         !.status = IF garage_resp = "204" THEN "success"
                                    ELSE "http404",
                         !.attempted = loop.attempted,
                         !.garage_attempted = TRUE,
                         !.deletedSpots = loop.deleted_spots,
                         !.spotsDeletedCount = Len(loop.deleted_spots)]
                 /\ UNCHANGED <<find, booking, active_connections, alive,
                                received, locked, clear, clearall>>

NextGarage ==
    \/ \E reachable \in BOOLEAN : DeleteGarage(GarageId, reachable)
    \/ \E id \in SpotIds : EntityRemoved(id)

SpecGarage == InitFind /\ [][NextGarage]_vars

\* -------------------------------------------------- clear_parking_spot
\* Variant of NeedsWrite that writes to every spot of the snapshot.
NeedsWriteAlways(status) == TRUE

\* Line 269: the spots of the snapshot the handler writes to.
NeedsWrite(status) == status # Some(FREE)

\* Lines 252-260: the snapshot of the spots.  before records the bookings
\* whose write the snapshot already shows.
ClearAllFetch(reachable) ==
    /\ clearall.pc = "idle"
    /\ clearall' =
         IF reachable
         THEN [clearall EXCEPT !.pc = "loop", !.all_spots = store, !.i = 1,
                               !.before = {r \in Bookings : booking[r].wrote}]
         ELSE [clearall EXCEPT !.pc = "done", !.result = "http500_fiware"]
    /\ UNCHANGED <<store, find, booking, active_connections, alive, received,
                   locked, clear, garages, removal>>

\* Lines 263-302, one turn of the loop: the spot at index i of the snapshot
\* is passed over when the snapshot has it free, and gets the status=free
\* write otherwise; the except clauses are those of book_parking_spot.
\* Lines 304-307 once the snapshot is through.
ClearAllStep(reachable) ==
    /\ clearall.pc = "loop"
    /\ LET k == clearall.i
           all_spots == clearall.all_spots
       IN  IF k > Len(all_spots)
           THEN /\ clearall' = [clearall EXCEPT !.pc = "done",
                                                !.result = "success",
                                                !.count = Len(all_spots)]
                /\ UNCHANGED store
           ELSE LET spot_id == all_spots[k].id
                    status == get_clean_value(all_spots[k].status)
                    response == PatchResponse(spot_id, reachable)
                IN  IF ~NeedsWrite(status)
                    THEN /\ clearall' = [clearall EXCEPT !.i = k + 1]
                         /\ UNCHANGED store
                    ELSE IF RaisedFor(response) # "none"
                    THEN /\ clearall' = [clearall EXCEPT
                                            !.pc = "done",
                                            !.result = RaisedFor(response)]
                         /\ UNCHANGED store
                    ELSE /\ clearall' = [clearall EXCEPT
                                            !.i = k + 1,
                                            !.patched = @ \cup {spot_id}]
                         /\ store' = PatchStatus(spot_id, FREE)
    /\ UNCHANGED <<find, booking, active_connections, alive, received, locked,
                   clear, garages, removal>>

\* The bookings that run beside the call.
NextClearAll ==
    \/ \E reachable \in BOOLEAN : ClearAllFetch(reachable)
    \/ \E reachable \in BOOLEAN : ClearAllStep(reachable)
    \/ \E r \in Bookings, id \in SpotIds \cup {UnknownId}, reachable \in BOOLEAN :
           BookRead(r, id, reachable)
    \/ \E r \in Bookings, reachable \in BOOLEAN : BookWrite(r, reachable)

SpecClearAll == Init /\ [][NextClearAll]_vars

\* ================================================================ claims
\* The events machine m got from request r.
EventsOf(r, m) == {k \in 1 .. Len(received[m]) : received[m][k].request = r}
Broadcast(r) == \E m \in Machines : EventsOf(r, m) # {}
ErrorResults == {"http500_fiware", "http400", "http500_conn", "raised"}

\* C1: a booking of a spot that an earlier booking already reported locked,
\* with no free of that spot since, fails and delivers no event.
C1_SecondBookingFails ==
    \A r \in Bookings :
        (booking[r].pc = "done" /\ booking[r].prior)
            => (booking[r].result \in ErrorResults /\ ~Broadcast(r))

\* C2: of the requests that race for one spot (each read it while another
\* was between its read and its return), with no free call in the run, at
\* most one has its status=occupied write applied by the store.
C2_OneWriteWinsTheRace ==
    \A r1, r2 \in Bookings :
        (/\ r1 # r2
         /\ clear.count = 0
         /\ booking[r1].spot_id = booking[r2].spot_id
         /\ booking[r1].raced /\ booking[r2].raced
         /\ booking[r1].wrote)
            => ~booking[r2].wrote

\* C3: read, then write, then broadcast: a machine holds an event of a
\* request only if the store applied that request's write, a request is
\* written only after its read, and a request whose read failed or whose
\* write was refused or got no answer delivers no event.
C3_BroadcastOnlyAfterWrite ==
    \A r \in Bookings :
        /\ Broadcast(r) => (booking[r].wrote /\ booking[r].pc \in {"send", "done"})
        /\ booking[r].wrote => booking[r].pc \in {"send", "done"}
        /\ booking[r].pc = "send" => booking[r].wrote
        /\ booking[r].result \in {"http500_fiware", "http400", "http500_conn"}
              => ~Broadcast(r)
        /\ (booking[r].result = "raised" /\ ~booking[r].wrote) => ~Broadcast(r)

\* C3 witness: the store refused the write of one request (its spot had
\* vanished after the read), which delivered nothing, while the event of
\* another request, written and confirmed, reached a machine.
C3_Witness ==
    \E r1, r2 \in Bookings :
        /\ booking[r1].result = "http400" /\ ~Broadcast(r1)
        /\ Broadcast(r2) /\ booking[r2].result = "success"

\* ------------------------------------------------------ matcher claims
\* The call answered with a spot.
Found == find.result.status = "success"
FoundSpot == store[IndexOf(find.result.assigned_spot_id)]
\* The call fetched the list (the store answered).
Fetched == find.result.status \in {"success", "failure", "raised"}

\* Eligibility as section 4.1 of the specification states it: free, with
\* readable categories that satisfy the rule.
Eligible(spot, preferences) ==
    /\ get_clean_value(spot.status) = Some(FREE)
    /\ get_clean_value(spot.category) # None
    /\ is_match(get_clean_value(spot.category)[1], preferences)
EligibleIndexes == {k \in 1 .. Len(store) : Eligible(store[k], find.preferences)}
WeightAt(k) == Cardinality(store[k].category.value \cap Tags)

\* C4: the spot find_parking_spot returns is free in the fetched list.
C4_ResultIsFree ==
    Found => /\ IndexOf(find.result.assigned_spot_id) # 0
             /\ FoundSpot.status = Wrapped(FREE)

\* C4 witness: a spot that is not free precedes the one returned.
C4_Witness ==
    /\ Found
    /\ find.result.assigned_spot_id = 2
    /\ store[1].status = Wrapped(OCCUPIED)
    /\ store[1].category = store[2].category

\* C5: without requires_disabled and requires_female the spot returned
\* carries neither forDisabled nor forWomen, and a free spot tagged only
\* forElectricCharging is eligible: with one in the list the answer is not
\* "failure", and it is the one returned when it is the only free spot.
C5_GenericGetsNoReservedSpot ==
    (~find.preferences.requires_disabled /\ ~find.preferences.requires_female)
        => /\ Found => (DISABLED \notin FoundSpot.category.value
                        /\ WOMEN \notin FoundSpot.category.value)
           /\ \A k \in 1 .. Len(store) :
                (/\ find.result.status \in {"success", "failure"}
                 /\ store[k].status = Wrapped(FREE)
                 /\ store[k].category = Wrapped({EV}))
                    => /\ Found
                       /\ (\A j \in 1 .. Len(store) :
                              j # k => store[j].status # Wrapped(FREE))
                            => find.result.assigned_spot_id = store[k].id

\* C5 witness: a generic request passes over a free reserved spot listed
\* first and gets a spot tagged only forElectricCharging.
C5_Witness ==
    /\ Found
    /\ ~find.preferences.requires_disabled
    /\ ~find.preferences.requires_female
    /\ ~find.preferences.requires_ev
    /\ store[1].status = Wrapped(FREE)
    /\ store[1].category = Wrapped({DISABLED})
    /\ FoundSpot.category = Wrapped({EV})

\* C6: every constraint the request sets is met by the spot returned.
C6_ConstraintsMet ==
    Found => /\ find.preferences.requires_ev => EV \in FoundSpot.category.value
             /\ find.preferences.requires_disabled
                   => DISABLED \in FoundSpot.category.value
             /\ find.preferences.requires_female
                   => WOMEN \in FoundSpot.category.value

\* C6 witness: requires_disabled alone skips a free general spot listed
\* first and returns the forDisabled spot after it.
C6_Witness ==
    /\ Found
    /\ find.preferences.requires_disabled
    /\ ~find.preferences.requires_female
    /\ ~find.preferences.requires_ev
    /\ store[1].status = Wrapped(FREE)
    /\ store[1].category = Wrapped({})
    /\ find.result.assigned_spot_id = 2
    /\ DISABLED \in store[2].category.value

\* C7: the spot returned is eligible, no eligible spot weighs less (weight:
\* the number of special tags, whatever the request), and no eligible spot
\* of the same weight is listed before it.
C7_MinimalWeightFirstListed ==
    Found =>
        LET best == IndexOf(find.result.assigned_spot_id)
        IN  /\ best \in EligibleIndexes
            /\ WeightAt(best) \in 0 .. 3
            /\ \A k \in EligibleIndexes : WeightAt(best) <= WeightAt(k)
            /\ \A k \in EligibleIndexes : WeightAt(k) = WeightAt(best) => best <= k

\* C7 witness: two eligible spots of equal weight, the first listed wins.
C7_Witness ==
    /\ Found
    /\ EligibleIndexes = {1, 2}
    /\ WeightAt(1) = WeightAt(2)
    /\ WeightAt(1) = 2
    /\ find.result.assigned_spot_id = 1

\* C8: on a fetched list the answer is "failure / No suitable spots
\* available." exactly when no spot is eligible, it is "success" whenever
\* one is, and no list makes the call raise.
C8_FailureIffNoneEligible ==
    Fetched =>
        /\ (find.result.status = "failure") <=> (EligibleIndexes = {})
        /\ (EligibleIndexes # {}) => Found
        /\ find.result.status # "raised"

\* ------------------------------------------------------ broadcast claims
\* The request ended on a send that raised.
SendFailed(r) ==
    booking[r].pc = "done" /\ booking[r].wrote /\ booking[r].result = "raised"

\* C9: when the send to one connection fails, the connections registered
\* at the call whose channel is open all get the event, and the failing
\* connection has left the registry when the broadcast is over.
C9_FailedSendIsolated ==
    \A r \in Bookings :
        SendFailed(r)
            => /\ booking[r].target \notin Registered
               /\ \A m \in booking[r].registered \ {booking[r].target} :
                     alive[m] => EventsOf(r, m) # {}

\* C10: a request whose write the store applied returns success, whatever
\* happens to the delivery of its event.
C10_ConfirmedWriteReturnsSuccess ==
    \A r \in Bookings :
        (booking[r].pc = "done" /\ booking[r].wrote) => booking[r].result = "success"

\* ------------------------------------------------------ registry claims
\* C11: the machines that get the event of a request that ended in success
\* are the ones registered when send_coordinates was called, once each; a
\* machine registered after the call gets nothing.
C11_ReceiversAreThoseRegisteredAtCall ==
    \A r \in Bookings :
        (booking[r].pc = "done" /\ booking[r].result = "success")
            => \A m \in Machines :
                  Cardinality(EventsOf(r, m)) =
                      IF m \in booking[r].registered THEN 1 ELSE 0

\* C12: the registry holds live connections only: once machine_socket has
\* handled the loss of a channel, the connection is out of
\* active_connections.
C12_RegistryHoldsLiveConnectionsOnly ==
    \A m \in Registered : alive[m]

\* ------------------------------------------------- matcher claims, again
\* The spot's status and categories can be read.
Readable(spot) ==
    /\ get_clean_value(spot.status) # None
    /\ get_clean_value(spot.category) # None

\* C15: a spot whose status or categories are missing or unreadable is
\* skipped: the answer on a fetched list is the answer on the list without
\* those spots, and the scan does not raise.
C15_UnreadableSpotsAreSkipped ==
    Fetched =>
        find.result = find_parking_spot(SelectSeq(store, Readable), find.preferences)

\* C19: find_parking_spot writes nothing: a call leaves the store as it
\* was, also when it answers "Spot reserved successfully.", and a second
\* call with the same constraints answers with the same spot id.
C19_FindIsReadOnly ==
    [][/\ store' = store
       /\ (/\ Found
           /\ find'.preferences = find.preferences
           /\ find'.result.status = "success")
             => find'.result.assigned_spot_id = find.result.assigned_spot_id]_vars

\* C19 witness: the call answered "Spot reserved successfully." and the
\* spot it named is still free in the store.
C19_Witness ==
    /\ find.result.message = "Spot reserved successfully."
    /\ get_clean_value(FoundSpot.status) = Some(FREE)
    /\ find.result.assigned_spot_id = 1

\* ----------------------------------------------------- failure claims
\* The step that takes request r further.
Proceeds(r) ==
    \/ \E reachable \in BOOLEAN : BookWrite(r, reachable)
    \/ BookSend(r)

\* C16: no operation waits for the store without limit: a request that
\* has arrived and has not returned always has a step to take (an answer,
\* an error or a timeout ends every store call).
C16_EveryStoreCallEnds ==
    \A r \in Bookings :
        booking[r].pc \notin {"idle", "done"} => ENABLED Proceeds(r)

\* The class of section 7 of the specification that a failed store call
\* of ConfirmBooking belongs to.
CauseOf(met) ==
    IF met \in {"read_no_answer", "write_no_answer"} THEN "UpstreamUnavailable"
    ELSE IF met = "read_404" THEN "NotFound"
    ELSE IF met = "write_404" THEN "ConflictOrRejected"
    ELSE "none"

\* C17: store unreachable on the re-read, spot gone on the re-read and
\* write refused by the store are told apart: two requests that failed for
\* causes of different classes got different answers, and a request that
\* failed for one of them delivered no event and wrote nothing.
C17_FailureCausesAreToldApart ==
    \A r1, r2 \in Bookings :
        (/\ booking[r1].pc = "done"
         /\ CauseOf(booking[r1].met) # "none")
            => /\ ~Broadcast(r1) /\ ~booking[r1].wrote
               /\ (/\ booking[r2].pc = "done"
                   /\ CauseOf(booking[r2].met) # "none"
                   /\ CauseOf(booking[r2].met) # CauseOf(booking[r1].met))
                     => booking[r2].result # booking[r1].result

\* C18: /clear-spot answers 404 for an id the store does not know, 500
\* when the store cannot be reached, and success for a known id.
C18_ClearOfUnknownSpotAnswers404 ==
    /\ clear.met = "404" => clear.result = "http404"
    /\ clear.met = "no_answer" => clear.result = "http500_conn"
    /\ clear.met = "204" => clear.result = "success"

\* ------------------------------------------------------- garage claims
\* A /delete-garage call the store answered, for a garage it held.
Answered ==
    removal.status # "none" /\ removal.reachable /\ removal.garage_held

\* The ids in a sequence.
Range(seq) == {seq[k] : k \in 1 .. Len(seq)}

\* C13: a DeleteGarage call that the store answers goes through all the
\* spots of the garage and then the garage, whatever the store says to a
\* single spot: a DELETE was sent for every matched spot and for the
\* garage, the reported list holds ids the store no longer has, the count
\* is the length of the list, and the call succeeds once the garage is
\* gone from the store.
C13_UnconfirmedSpotDeletionDoesNotAbort ==
    Answered =>
        /\ removal.attempted = removal.matched
        /\ removal.garage_attempted
        /\ \A id \in Range(removal.deletedSpots) : IndexOf(id) = 0
        /\ removal.spotsDeletedCount = Len(removal.deletedSpots)
        /\ removal.garage_id \notin garages => removal.status = "success"
        /\ removal.status = "success" \/ removal.garage_id \in garages

\* C14: in a DeleteGarage call that the store answers, the garage's DELETE
\* is sent, and only after one was sent for every matched spot; a garage
\* the store still holds afterwards means an error answer, and the spots
\* reported deleted are not in the store.
C14_GarageDeletedLastAndFailureSurfaced ==
    Answered =>
        /\ removal.garage_attempted
        /\ removal.garage_attempted => removal.attempted = removal.matched
        /\ removal.garage_id \in garages => removal.status # "success"
        /\ \A id \in Range(removal.deletedSpots) : IndexOf(id) = 0

\* --------------------------------------------------- clear-all claims
\* A booking wrote to the store after the snapshot was taken.
Disturbed == \E r \in Bookings : booking[r].wrote /\ r \notin clearall.before

\* The snapshot has the spot at index k not free.
NotFreeAt(k) == get_clean_value(clearall.all_spots[k].status) # Some(FREE)

\* The status the store has now for the spot at index k of the snapshot.
StatusNow(k) == store[IndexOf(clearall.all_spots[k].id)].status

\* The call stopped at a failed write.
StoppedAtWrite ==
    clearall.pc = "done" /\ clearall.result \in {"http400", "http500_conn"}

\* C20: free-all writes status=free only to spots its snapshot has not
\* free; after a success with no booking written meanwhile every spot of
\* the snapshot is free in the store; a failed write ends the call with an
\* error at that spot, with the not-free spots before it written and, no
\* booking written meanwhile, freed, and that spot and those after it as
\* the snapshot had them.
C20_FreeAll ==
    LET snapshot == clearall.all_spots
        n == Len(snapshot)
    IN  /\ \A id \in clearall.patched :
               \E k \in 1 .. n : snapshot[k].id = id /\ NotFreeAt(k)
        /\ (clearall.result = "success" /\ ~Disturbed)
               => /\ clearall.count = n
                  /\ \A k \in 1 .. n : get_clean_value(StatusNow(k)) = Some(FREE)
        /\ StoppedAtWrite
               => /\ clearall.i \in 1 .. n
                  /\ NotFreeAt(clearall.i)
                  /\ clearall.patched =
                        {snapshot[k].id : k \in {j \in 1 .. clearall.i - 1 : NotFreeAt(j)}}
                  /\ ~Disturbed =>
                        /\ \A k \in 1 .. clearall.i - 1 :
                               get_clean_value(StatusNow(k)) = Some(FREE)
                        /\ \A k \in clearall.i .. n :
                               StatusNow(k) = snapshot[k].status

\* The write to the second spot failed after the first spot was freed.
C20_Witness ==
    /\ StoppedAtWrite
    /\ ~Disturbed
    /\ clearall.i = Len(clearall.all_spots)
    /\ clearall.patched # {}
    /\ \A id \in clearall.patched : store[IndexOf(id)].status = Wrapped(FREE)
    /\ get_clean_value(StatusNow(clearall.i)) = Some(OCCUPIED)

====
